---- MODULE Spec2Model ----
(***************************************************************************)
(* Personal-finance backend: user registration, transaction intake with    *)
(* automatic categorisation through an external text-generation service,   *)
(* and paginated transaction queries.                                      *)
(*                                                                         *)
(* Text is modelled as a sequence of one-character strings, so that        *)
(* trimming, exact comparison, case and substrings are all distinguishable.*)
(* Every HTTP request runs in a slot; a slot's frame holds the handler's   *)
(* locals and its position.  The external service is the environment: it   *)
(* answers an outbound call with any text, a malformed body, or a fault.   *)
(***************************************************************************)
EXTENDS Integers, Sequences, FiniteSets, TLC

VARIABLES
    CATEGORIES,     \* expense_categorizer.CATEGORIES, the module-level list
    users,          \* rows of the users table, in insertion order
    transactions,   \* rows of the transactions table, in insertion order
    now,            \* the wall clock read by datetime.utcnow()
    req,            \* req[r]: the frame of the request running in slot r
    net,            \* net[r]: the outbound call of slot r, or the reply to it
    served          \* how many add_transaction requests ended, by outcome

vars == <<CATEGORIES, users, transactions, now, req, net, served>>

----------------------------------------------------------------------------
(* Bounds of the model *)

MaxPad == 2         \* whitespace characters around a service text, per side
MaxSlots == 2       \* requests in flight at once
MaxUsers == 2       \* rows of the users table
MaxAdds == 2        \* add_transaction requests over a run
MaxClock == 1       \* ticks of the wall clock

Slots == 1..MaxSlots

----------------------------------------------------------------------------
(* Text *)

Groceries == <<"G","r","o","c","e","r","i","e","s">>
Rent == <<"R","e","n","t">>
Bills == <<"B","i","l","l","s">>
Entertainment == <<"E","n","t","e","r","t","a","i","n","m","e","n","t">>
Transport == <<"T","r","a","n","s","p","o","r","t">>
Healthcare == <<"H","e","a","l","t","h","c","a","r","e">>
Education == <<"E","d","u","c","a","t","i","o","n">>
Shopping == <<"S","h","o","p","p","i","n","g">>

\* The list literal of expense_categorizer.py line 9.
CategoryList ==
    <<Groceries, Rent, Bills, Entertainment, Transport, Healthcare, Education, Shopping>>

\* The fallback label of line 25.
Other == <<"O","t","h","e","r">>

\* Characters str.strip() removes (those the service texts of the model use).
Whitespace == {" ", "\n"}

RECURSIVE lstrip(_)
lstrip(s) ==
    IF s # <<>> /\ Head(s) \in Whitespace THEN lstrip(Tail(s)) ELSE s

RECURSIVE rstrip(_)
rstrip(s) ==
    IF s # <<>> /\ s[Len(s)] \in Whitespace THEN rstrip(SubSeq(s, 1, Len(s) - 1)) ELSE s

\* str.strip(): remove leading and trailing whitespace, keep the inside.
strip(s) == rstrip(lstrip(s))

\* Python's `x in list`: equality with some element.
In(x, list) == \E i \in DOMAIN list : list[i] = x

Range(s) == {s[i] : i \in DOMAIN s}

RECURSIVE join(_, _)
\* str.join: the elements of list with sep between them.
join(sep, list) ==
    IF list = <<>> THEN <<>>
    ELSE IF Len(list) = 1 THEN list[1]
    ELSE list[1] \o sep \o join(sep, Tail(list))

----------------------------------------------------------------------------
(* expense_categorizer.categorize_expense *)

\* Line 15: the prompt, as the f-string's parts in order.
Prompt(description, categories) ==
    <<"Classify this expense: '", description,
      "' into one of the following categories: ", join(<<",", " ">>, categories), ".">>

\* Lines 17-20: the outbound call.
ChatRequest(description, categories) ==
    [kind |-> "request", model |-> "gpt-3.5-turbo",
     messages |-> <<[role |-> "user", content |-> Prompt(description, categories)]>>]

\* A well-formed response body carrying text as its first completion.
Completion(text) == [choices |-> <<[message |-> [content |-> text]]>>]

\* A body without completions: response["choices"][0] raises.
NoCompletion == [choices |-> <<>>]

\* Line 22 can be evaluated: the body has a first choice.
WellFormed(body) == Len(body.choices) >= 1

\* Lines 22-27 with the fallback missing: the trimmed text is returned as is.
label_unvalidated(content, categories) == strip(content)

\* Lines 22-27 with the trim missing.
label_untrimmed(content, categories) ==
    IF ~In(content, categories) THEN Other ELSE content

\* Lines 22-27 with a containment test in place of equality.
label_substring(content, categories) ==
    LET category == strip(content)
        hits == {i \in DOMAIN categories :
                    \E a \in 1..(Len(category) + 1) : \E b \in 0..Len(category) :
                        SubSeq(category, a, b) = categories[i]}
    IN  IF hits = {} THEN Other ELSE categories[CHOOSE i \in hits : TRUE]

\* Lines 22-27: trim the first completion's text; anything but an element of
\* the list becomes "Other".
label(content, categories) ==
    LET category == strip(content)
    IN  IF ~In(category, categories) THEN Other ELSE category

----------------------------------------------------------------------------
(* Frames and replies *)

Idle == [pc |-> "idle", handler |-> "none"]
NoCall == [kind |-> "none"]
Response(body) == [kind |-> "response", body |-> body]
Fault(f) == [kind |-> "fault", fault |-> f]

\* Faults openai.ChatCompletion.create raises.
CallFaults == {"TransportFailure", "AuthFailure"}

Init ==
    /\ CATEGORIES = CategoryList
    /\ users = <<>>
    /\ transactions = <<>>
    /\ now = 0
    /\ req = [r \in Slots |-> Idle]
    /\ net = [r \in Slots |-> NoCall]
    /\ served = [created |-> 0, failed |-> 0]

----------------------------------------------------------------------------
(* Inputs *)

\* Request bodies of POST /transactions/ (amount in cents).
Submissions ==
    {[amount |-> 1599, description |-> "Netflix monthly subscription"],
     [amount |-> 0, description |-> ""]}

Usernames == {"alice", "bob"}

InFlight(handler) == Cardinality({r \in Slots : req[r].handler = handler})

----------------------------------------------------------------------------
(* The wall clock *)

Tick ==
    /\ now < MaxClock
    /\ now' = now + 1
    /\ UNCHANGED <<CATEGORIES, users, transactions, req, net, served>>

----------------------------------------------------------------------------
(* The external text-generation service *)

\* The service answers slot r's call with a completion carrying text.
ServiceRespond(r, text) ==
    /\ net[r].kind = "request"
    /\ net' = [net EXCEPT ![r] = Response(Completion(text))]
    /\ UNCHANGED <<CATEGORIES, users, transactions, now, req, served>>

\* The service answers with a body that has no completion.
ServiceMalformed(r) ==
    /\ net[r].kind = "request"
    /\ net' = [net EXCEPT ![r] = Response(NoCompletion)]
    /\ UNCHANGED <<CATEGORIES, users, transactions, now, req, served>>

\* The call fails in transport or authentication.
ServiceFault(r, f) ==
    /\ net[r].kind = "request"
    /\ net' = [net EXCEPT ![r] = Fault(f)]
    /\ UNCHANGED <<CATEGORIES, users, transactions, now, req, served>>

----------------------------------------------------------------------------
(* categorize_expense, as run by the frame of slot r *)

\* Lines 15-20 with a shortcut for the empty description: no call is made.
ClassifyCall_skipEmpty(r) ==
    /\ req[r].pc = "classify"
    /\ IF req[r].description = ""
         THEN /\ req' = [req EXCEPT ![r] = [pc |-> "classified", category |-> Other] @@ @]
              /\ UNCHANGED net
         ELSE /\ net' = [net EXCEPT ![r] = ChatRequest(req[r].description, CATEGORIES)]
              /\ req' = [req EXCEPT ![r] = [pc |-> "awaiting", calls |-> @.calls + 1] @@ @]
    /\ UNCHANGED <<CATEGORIES, users, transactions, now, served>>

\* Lines 15-20: build the prompt and issue the call; the frame then blocks.
ClassifyCall(r) ==
    /\ req[r].pc = "classify"
    /\ net' = [net EXCEPT ![r] = ChatRequest(req[r].description, CATEGORIES)]
    /\ req' = [req EXCEPT ![r] = [pc |-> "awaiting", calls |-> @.calls + 1] @@ @]
    /\ UNCHANGED <<CATEGORIES, users, transactions, now, served>>

\* The frame of slot r after an exception left its handler: FastAPI answers 500.
Raised(r, f) == [pc |-> "raised", status |-> 500, fault |-> f] @@ req[r]

\* Lines 17-27 with the failures caught and turned into the fallback label.
ClassifyResume_swallow(r) ==
    /\ req[r].pc = "awaiting"
    /\ net[r].kind \in {"response", "fault"}
    /\ req' = [req EXCEPT ![r] =
                 IF net[r].kind = "fault" \/ ~WellFormed(net[r].body)
                   THEN [pc |-> "classified", category |-> Other] @@ @
                   ELSE [pc |-> "classified",
                         category |-> label(net[r].body.choices[1].message.content,
                                            CATEGORIES)] @@ @]
    /\ UNCHANGED <<CATEGORIES, users, transactions, now, net, served>>

\* Lines 17-27 reading the reply through state shared by all requests: the
\* reply that arrived last, whichever request it answers.
ClassifyResume_shared(r) ==
    /\ req[r].pc = "awaiting"
    /\ net[r].kind \in {"response", "fault"}
    /\ \E q \in Slots :
         /\ net[q].kind = "response" /\ WellFormed(net[q].body)
         /\ req' = [req EXCEPT ![r] =
                      [pc |-> "classified",
                       category |-> label(net[q].body.choices[1].message.content,
                                          CATEGORIES)] @@ @]
    /\ UNCHANGED <<CATEGORIES, users, transactions, now, net, served>>

\* Lines 17-27: create() returns the reply or raises; line 22 raises on a body
\* without a first completion; nothing is caught, so a fault leaves the
\* function and its caller.  Otherwise the label of lines 22-27 is returned.
ClassifyResume(r) ==
    /\ req[r].pc = "awaiting"
    /\ net[r].kind \in {"response", "fault"}
    /\ req' = [req EXCEPT ![r] =
                 IF net[r].kind = "fault" THEN Raised(r, net[r].fault)
                 ELSE IF ~WellFormed(net[r].body) THEN Raised(r, "MalformedResponse")
                 ELSE [pc |-> "classified",
                       category |-> label(net[r].body.choices[1].message.content,
                                          CATEGORIES)] @@ @]
    /\ UNCHANGED <<CATEGORIES, users, transactions, now, net, served>>

----------------------------------------------------------------------------
(* expense_categorizer.py run as a script *)

\* Lines 30-31: categorize_expense called directly with a description.
MainInvoke(r, description) ==
    /\ req[r].pc = "idle"
    /\ req' = [req EXCEPT ![r] =
                 [pc |-> "classify", handler |-> "main",
                  description |-> description, calls |-> 0]]
    /\ UNCHANGED <<CATEGORIES, users, transactions, now, net, served>>

\* Line 31: the returned label is printed.
MainPrint(r) ==
    /\ req[r].pc = "classified"
    /\ req[r].handler = "main"
    /\ req' = [req EXCEPT ![r] = [pc |-> "returned", result |-> @.category] @@ @]
    /\ UNCHANGED <<CATEGORIES, users, transactions, now, net, served>>

----------------------------------------------------------------------------
(* main.add_transaction *)

\* Line 66-67: the body is parsed, the caller is resolved to a users row, and
\* categorize_expense is entered with the description.
StartAddTransaction(r, transaction, user) ==
    /\ req[r].pc = "idle"
    /\ In(user, users)
    /\ served.created + served.failed + InFlight("add_transaction") < MaxAdds
    /\ req' = [req EXCEPT ![r] =
                 [pc |-> "classify", handler |-> "add_transaction",
                  transaction |-> transaction, user |-> user,
                  description |-> transaction.description, calls |-> 0]]
    /\ UNCHANGED <<CATEGORIES, users, transactions, now, net, served>>

\* The row of lines 69-75 built by the frame of slot r.
NewTransaction(r) ==
    [id |-> Len(transactions) + 1,
     amount |-> req[r].transaction.amount,
     category |-> req[r].category,
     description |-> req[r].transaction.description,
     date |-> now,
     user_id |-> req[r].user.id]

\* Lines 69-79 with the insert issued twice.
AddTransactionCommit_twice(r) ==
    /\ req[r].pc = "classified"
    /\ req[r].handler = "add_transaction"
    /\ transactions' = Append(Append(transactions, NewTransaction(r)),
                              [NewTransaction(r) EXCEPT !.id = @ + 1])
    /\ req' = [req EXCEPT ![r] = [pc |-> "returned", result |-> NewTransaction(r)] @@ @]
    /\ UNCHANGED <<CATEGORIES, users, now, net, served>>

\* Lines 69-79 with the row attributed to the first user of the table.
AddTransactionCommit_owner(r) ==
    /\ req[r].pc = "classified"
    /\ req[r].handler = "add_transaction"
    /\ transactions' = Append(transactions,
                              [NewTransaction(r) EXCEPT !.user_id = users[1].id])
    /\ req' = [req EXCEPT ![r] =
                 [pc |-> "returned",
                  result |-> [NewTransaction(r) EXCEPT !.user_id = users[1].id]] @@ @]
    /\ UNCHANGED <<CATEGORIES, users, now, net, served>>

\* Lines 69-79: build the row from the body, the label, the clock and the
\* caller, insert it, and return it with its identity.
AddTransactionCommit(r) ==
    /\ req[r].pc = "classified"
    /\ req[r].handler = "add_transaction"
    /\ transactions' = Append(transactions, NewTransaction(r))
    /\ req' = [req EXCEPT ![r] = [pc |-> "returned", result |-> NewTransaction(r)] @@ @]
    /\ UNCHANGED <<CATEGORIES, users, now, net, served>>

----------------------------------------------------------------------------
(* The server answers the client and the frame is gone *)

Finish(r) ==
    /\ req[r].pc \in {"returned", "raised"}
    /\ req' = [req EXCEPT ![r] = Idle]
    /\ net' = [net EXCEPT ![r] = NoCall]
    /\ served' = IF req[r].handler # "add_transaction" THEN served
                 ELSE IF req[r].pc = "returned"
                   THEN [served EXCEPT !.created = @ + 1]
                   ELSE [served EXCEPT !.failed = @ + 1]
    /\ UNCHANGED <<CATEGORIES, users, transactions, now>>

----------------------------------------------------------------------------
(* main.register *)

\* Line 44: the first users row with this username, if any.
UsernameTaken(username) == \E i \in DOMAIN users : users[i].username = username

\* Lines 43-45: the existence query; a taken username is answered 400.
RegisterCheck(r, user_data) ==
    /\ req[r].pc = "idle"
    /\ IF UsernameTaken(user_data.username)
         THEN req' = [req EXCEPT ![r] =
                        [pc |-> "raised", handler |-> "register", user_data |-> user_data,
                         status |-> 400, detail |-> "Username already exists"]]
         ELSE /\ Len(users) + InFlight("register") < MaxUsers
              /\ req' = [req EXCEPT ![r] =
                           [pc |-> "insert", handler |-> "register", user_data |-> user_data]]
    /\ UNCHANGED <<CATEGORIES, users, transactions, now, net, served>>

\* Lines 47-52: the row is added and committed; the check of line 44 is not
\* repeated, so the insert goes through whatever was committed meanwhile.
RegisterCommit(r) ==
    /\ req[r].pc = "insert"
    /\ req[r].handler = "register"
    /\ users' = Append(users, [id |-> Len(users) + 1,
                               username |-> req[r].user_data.username])
    /\ req' = [req EXCEPT ![r] =
                 [pc |-> "returned",
                  result |-> [message |-> "User registered successfully"]] @@ @]
    /\ UNCHANGED <<CATEGORIES, transactions, now, net, served>>

\* Line 50 when the table's schema rejects the duplicate: commit() raises, the
\* handler catches nothing, and the client is answered 500.
RegisterCommitRejected(r) ==
    /\ req[r].pc = "insert"
    /\ req[r].handler = "register"
    /\ UsernameTaken(req[r].user_data.username)
    /\ req' = [req EXCEPT ![r] = Raised(r, "IntegrityError")]
    /\ UNCHANGED <<CATEGORIES, users, transactions, now, net, served>>

----------------------------------------------------------------------------
(* main.get_transactions *)

\* An optional query parameter: {} when absent, {v} when given.
Given(opt) == opt # {}
Val(opt) == CHOOSE v \in opt : TRUE

\* Python truth of an optional string: given and not empty.
Truthy(opt) == Given(opt) /\ Val(opt) # <<>>

\* Timestamps are clock readings; their ISO text is the reading's digit.
Digits == <<"0", "1", "2", "3", "4", "5", "6", "7", "8", "9">>

\* datetime.fromisoformat accepts the text.
IsIsoformat(s) == Len(s) = 1 /\ In(s[1], Digits)

\* datetime.fromisoformat: the timestamp the text denotes.
fromisoformat(s) == (CHOOSE i \in DOMAIN Digits : Digits[i] = s[1]) - 1

\* Lines 92-99 without the filter on the owner.
Matches_anyOwner(row, user, q) ==
    /\ Truthy(q.category) => row.category = Val(q.category)
    /\ Truthy(q.start_date) => row.date >= fromisoformat(Val(q.start_date))
    /\ Truthy(q.end_date) => row.date <= fromisoformat(Val(q.end_date))

\* Lines 92-99: the query's filters, applied to a row.
Matches(row, user, q) ==
    /\ row.user_id = user.id
    /\ Truthy(q.category) => row.category = Val(q.category)
    /\ Truthy(q.start_date) => row.date >= fromisoformat(Val(q.start_date))
    /\ Truthy(q.end_date) => row.date <= fromisoformat(Val(q.end_date))

\* The rows the query of lines 92-99 selects, by position in the table.
Selected(user, q) == {i \in DOMAIN transactions : Matches(transactions[i], user, q)}

\* Lines 97 and 99 raise ValueError on a date text that is no ISO date.
BadDate(q) ==
    \/ Truthy(q.start_date) /\ ~IsIsoformat(Val(q.start_date))
    \/ Truthy(q.end_date) /\ ~IsIsoformat(Val(q.end_date))

\* Lines 83-101: the caller is resolved, the query is built and counted.
\* `seen` records how many rows the table held when the count ran.
GetTransactionsCount(r, user, q) ==
    /\ req[r].pc = "idle"
    /\ In(user, users)
    /\ req' = [req EXCEPT ![r] =
                 IF BadDate(q)
                   THEN [pc |-> "raised", handler |-> "get_transactions", user |-> user,
                         query |-> q, status |-> 500, fault |-> "ValueError"]
                   ELSE [pc |-> "fetch", handler |-> "get_transactions", user |-> user,
                         query |-> q, total |-> Cardinality(Selected(user, q)),
                         seen |-> Len(transactions)]]
    /\ UNCHANGED <<CATEGORIES, users, transactions, now, net, served>>

\* The orders in which the database may return the rows of a set: the query
\* has no ORDER BY.
Orders(S) == {f \in [1..Cardinality(S) -> S] : \A i, j \in DOMAIN f : f[i] = f[j] => i = j}

\* offset(n).limit(m) on rows in a given order.
Page(rows, offset, limit) ==
    [k \in 1..(IF Len(rows) - offset < 0 THEN 0
               ELSE IF Len(rows) - offset < limit THEN Len(rows) - offset
               ELSE limit) |-> rows[offset + k]]

\* Lines 102-104: the page is fetched by a second statement, which sees the
\* rows committed by then, and the answer is assembled.
GetTransactionsFetch(r) ==
    /\ req[r].pc = "fetch"
    /\ \E order \in Orders(Selected(req[r].user, req[r].query)) :
         LET rows == [k \in DOMAIN order |-> transactions[order[k]]]
             q == req[r].query
         IN  req' = [req EXCEPT ![r] =
                       [pc |-> "returned",
                        result |-> [total |-> req[r].total, page |-> q.page,
                                    limit |-> q.limit,
                                    transactions |->
                                        Page(rows, (q.page - 1) * q.limit, q.limit)]] @@ @]
    /\ UNCHANGED <<CATEGORIES, users, transactions, now, net, served>>

----------------------------------------------------------------------------
(* Specifications *)

Registrations == {[username |-> u] : u \in Usernames}

\* Registration on an empty database.
NextRegister ==
    \/ \E r \in Slots : \E d \in Registrations : RegisterCheck(r, d)
    \/ \E r \in Slots : RegisterCommit(r)
    \/ \E r \in Slots : RegisterCommitRejected(r)
    \/ \E r \in Slots : Finish(r)

SpecRegister == Init /\ [][NextRegister]_vars

Alice == [id |-> 1, username |-> "alice"]
Bob == [id |-> 2, username |-> "bob"]

\* The database after alice and bob registered, one after the other (a state
\* SpecRegister reaches); the tables outlive the process (main.py line 24).
InitRegistered ==
    /\ CATEGORIES = CategoryList
    /\ users = <<Alice, Bob>>
    /\ transactions = <<>>
    /\ now = 0
    /\ req = [r \in Slots |-> Idle]
    /\ net = [r \in Slots |-> NoCall]
    /\ served = [created |-> 0, failed |-> 0]

\* Texts the service returns to the intake: an exact label, a label the list
\* does not hold, a padded label.
IntakeTexts ==
    {Entertainment,
     <<"M","i","s","c">>,
     <<" ">> \o Groceries \o <<" ", "\n">>}

\* Transaction intake by the registered users.
Next ==
    \/ \E r \in Slots : \E t \in Submissions : \E u \in Range(users) :
          StartAddTransaction(r, t, u)
    \/ \E r \in Slots : ClassifyCall(r)
    \/ \E r \in Slots : \E text \in IntakeTexts : ServiceRespond(r, text)
    \/ \E r \in Slots : ServiceMalformed(r)
    \/ \E r \in Slots : \E f \in CallFaults : ServiceFault(r, f)
    \/ \E r \in Slots : ClassifyResume(r)
    \/ \E r \in Slots : AddTransactionCommit(r)
    \/ \E r \in Slots : Finish(r)

Spec == InitRegistered /\ [][Next]_vars

----------------------------------------------------------------------------
(* The script: categorize_expense on its own, against every service text *)

Descriptions == {"Netflix monthly subscription", "Grocery run", ""}

\* Whitespace runs of at most MaxPad characters.
Pads == UNION {[1..n -> Whitespace] : n \in 0..MaxPad}

\* What the service may say once the padding is taken off: every label, no
\* text, labels in another case, with punctuation, cut short or extended,
\* inside a sentence, two at once, the fallback label itself.
Cores ==
    Range(CategoryList) \cup
    {<<>>,
     Other,
     <<"M","i","s","c">>,
     <<"g","r","o","c","e","r","i","e","s">>,
     <<"R","E","N","T">>,
     Rent \o <<".">>,
     Bills \o <<"!">>,
     <<"B","i","l","l">>,
     Rent \o <<"s">>,
     <<"N","o","t"," ">> \o Shopping,
     Transport \o <<" ","o","k">>,
     Rent \o <<" ">> \o Bills,
     Education \o <<"\n">> \o Education,
     <<"H","e","a","l","t","h"," ","c","a","r","e">>}

Texts == {l \o c \o t : l \in Pads, c \in Cores, t \in Pads}

\* The script is one process: it runs in slot 1.
NextClassify ==
    \/ \E d \in Descriptions : MainInvoke(1, d)
    \/ ClassifyCall(1)
    \/ \E text \in Texts : ServiceRespond(1, text)
    \/ ServiceMalformed(1)
    \/ \E f \in CallFaults : ServiceFault(1, f)
    \/ ClassifyResume(1)
    \/ MainPrint(1)
    \/ Finish(1)

SpecClassify == Init /\ [][NextClassify]_vars

----------------------------------------------------------------------------
(* Queries by the registered users, beside the intake *)

\* Pages and page sizes asked for (line 89-90 admits page >= 1, 1 <= limit <= 100).
Limits == {1, 2}

Query(c, s, e, p, l) ==
    [category |-> c, start_date |-> s, end_date |-> e, page |-> p, limit |-> l]

\* Every page and page size without filters; each filter on its own (a
\* category, the empty category, a start, an end, a text that is no date);
\* the three filters together.
Queries ==
    {Query({}, {}, {}, p, l) : p \in Limits, l \in Limits} \cup
    {Query({Entertainment}, {}, {}, 1, 2),
     Query({<<>>}, {}, {}, 1, 2),
     Query({}, {<<"1">>}, {}, 1, 2),
     Query({}, {}, {<<"0">>}, 1, 2),
     Query({}, {<<"x">>}, {}, 1, 2),
     Query({Other}, {<<"0">>}, {<<"1">>}, 1, 2)}

QueryTexts == {Entertainment, <<"M","i","s","c">>}

\* The rows differ in owner, category and date; one request body is enough.
QuerySubmissions == {[amount |-> 1599, description |-> "Netflix monthly subscription"]}

\* Bob queries while alice and bob submit.  Queries write nothing, so one
\* runs at a time; writers run one at a time here (Spec interleaves them);
\* the clock is read by the insert alone, so it ticks when one is pending.
NextQuery ==
    \/ (\E r \in Slots : req[r].pc = "classified") /\ Tick
    \/ \E r \in Slots : \E t \in QuerySubmissions : \E u \in Range(users) :
          /\ InFlight("add_transaction") = 0
          /\ StartAddTransaction(r, t, u)
    \/ \E r \in Slots : ClassifyCall(r)
    \/ \E r \in Slots : \E text \in QueryTexts : ServiceRespond(r, text)
    \/ \E r \in Slots : ClassifyResume(r)
    \/ \E r \in Slots : AddTransactionCommit(r)
    \/ \E r \in Slots : \E u \in {Bob} : \E q \in Queries :
          /\ InFlight("get_transactions") = 0
          /\ GetTransactionsCount(r, u, q)
    \/ \E r \in Slots : GetTransactionsFetch(r)
    \/ \E r \in Slots : Finish(r)

SpecQuery == InitRegistered /\ [][NextQuery]_vars

----------------------------------------------------------------------------
(* Vocabulary of the properties *)

\* The categories, as a set.
CategorySet == Range(CategoryList)

\* text is c with nothing but whitespace before and after it.
IsPadded(text, c) ==
    \E i \in 0..Len(text) :
        /\ i + Len(c) <= Len(text)
        /\ SubSeq(text, i + 1, i + Len(c)) = c
        /\ \A k \in 1..i : text[k] \in Whitespace
        /\ \A k \in (i + Len(c) + 1)..Len(text) : text[k] \in Whitespace

\* categorize_expense has returned a label to the frame of slot r.
Labelled(r) == req[r].pc \in {"classified", "returned"} /\ req[r].handler \in {"main", "add_transaction"}

\* The text of the reply the frame of slot r received.
ReplyText(r) == net[r].body.choices[1].message.content

\* The label the contract assigns to a reply text.
ExpectedLabel(text) ==
    IF \E c \in CategorySet : IsPadded(text, c)
      THEN CHOOSE c \in CategorySet : IsPadded(text, c)
      ELSE Other

\* The call of slot r faulted: create() raised, or the body has no completion.
CallFaulted(r) ==
    \/ net[r].kind = "fault"
    \/ net[r].kind = "response" /\ ~WellFormed(net[r].body)

FaultOf(r) == IF net[r].kind = "fault" THEN net[r].fault ELSE "MalformedResponse"

----------------------------------------------------------------------------
(* Properties of categorize_expense, under SpecClassify *)

\* C1: whatever text a well-formed response carries, the label returned is a
\* category or "Other", never the service's raw text.
C1_ResultInClosedSet ==
    \A r \in Slots :
        /\ Labelled(r) => req[r].category \in CategorySet \cup {Other}
        /\ (req[r].pc = "returned" /\ req[r].handler = "main")
              => req[r].result \in CategorySet \cup {Other}

\* The service said "Misc" (padded) and the script printed "Other".
C1_Witness ==
    /\ req[1].pc = "returned"
    /\ strip(ReplyText(1)) = <<"M","i","s","c">>
    /\ ReplyText(1) # <<"M","i","s","c">>
    /\ req[1].result = Other

\* C2: when the response text is a category c surrounded only by whitespace,
\* the label returned is c, not "Other".
C2_PaddedCategoryAccepted ==
    \A r \in Slots : \A c \in CategorySet :
        (Labelled(r) /\ IsPadded(ReplyText(r), c)) => req[r].category = c

\* The service said " Groceries \n" and the script printed "Groceries".
C2_Witness ==
    /\ req[1].pc = "returned"
    /\ req[1].description = "Grocery run"
    /\ ReplyText(1) = <<" ">> \o Groceries \o <<" ", "\n">>
    /\ req[1].result = Groceries

\* C3: when the response text, whitespace aside, is not exactly a category,
\* the label returned is "Other": no text, another case, trailing punctuation,
\* a category inside a longer text.
C3_AnythingElseIsOther ==
    \A r \in Slots :
        (Labelled(r) /\ ~(\E c \in CategorySet : IsPadded(ReplyText(r), c)))
            => req[r].category = Other

\* The service said "Not Shopping" and the script printed "Other".
C3_Witness ==
    /\ req[1].pc = "returned"
    /\ ReplyText(1) = <<"N","o","t"," ">> \o Shopping \o <<"\n">>
    /\ req[1].result = Other

\* C5: an invocation of categorize_expense has issued no call before line 17
\* and exactly one from then on, whatever the description and the outcome.
C5_OneCallPerInvocation ==
    \A r \in Slots :
        req[r].handler \in {"main", "add_transaction"} =>
            req[r].calls = IF req[r].pc = "classify" THEN 0 ELSE 1

\* The empty description was classified, with one call, after a label that is
\* not a category.
C5_Witness ==
    /\ req[1].pc = "returned"
    /\ req[1].description = ""
    /\ req[1].calls = 1
    /\ ReplyText(1) = <<>>
    /\ req[1].result = Other

----------------------------------------------------------------------------
(* Properties of the intake, under Spec *)

AddFrame(r) == req[r].handler = "add_transaction"

\* C4: when the classification call of an add_transaction faults, the request
\* ends with that fault (it gets no label, "Other" included), and no step of a
\* request that has not been given a label changes the transactions table.
C4_FaultPropagatesNothingPersisted ==
    [][\A r \in Slots :
          (req'[r] # req[r]) =>
            /\ (AddFrame(r) /\ req[r].pc = "awaiting" /\ CallFaulted(r))
                  => /\ req'[r].pc = "raised"
                     /\ req'[r].fault = FaultOf(r)
                     /\ req'[r].status = 500
            /\ (AddFrame(r) /\ req[r].pc = "raised")
                  => req'[r] = Idle
            /\ ((AddFrame(r) \/ req'[r].handler = "add_transaction")
                    /\ req[r].pc # "classified")
                  => transactions' = transactions]_vars

\* A request ended with the transport fault of its call, beside a row that
\* another request persisted.
C4_Witness ==
    \E r \in Slots :
        /\ AddFrame(r)
        /\ req[r].pc = "raised"
        /\ net[r] = Fault("TransportFailure")
        /\ req[r].fault = "TransportFailure"
        /\ Len(transactions) = 1

\* C6: the step that persists a classified add_transaction appends exactly one
\* row, carrying the label of that request's classification, the caller's id
\* and the submitted amount and description, and leaves the earlier rows as
\* they were.
C6_OneRowWithSubmittedFields ==
    [][\A r \in Slots :
          (AddFrame(r) /\ req[r].pc = "classified" /\ req'[r] # req[r]) =>
            /\ Len(transactions') = Len(transactions) + 1
            /\ SubSeq(transactions', 1, Len(transactions)) = transactions
            /\ LET t == transactions'[Len(transactions')]
               IN  /\ t.category = req[r].category
                   /\ t.user_id = req[r].user.id
                   /\ t.amount = req[r].transaction.amount
                   /\ t.description = req[r].transaction.description
                   /\ req'[r].pc = "returned"
                   /\ req'[r].result = t]_vars

\* A second row was persisted, for another user and with another label than
\* the first, which is still in place.
C6_Witness ==
    \E r \in Slots :
        /\ AddFrame(r)
        /\ req[r].pc = "returned"
        /\ Len(transactions) = 2
        /\ transactions[2] = req[r].result
        /\ transactions[1].user_id # transactions[2].user_id
        /\ transactions[1].category # transactions[2].category
        /\ transactions[1].amount # transactions[2].amount

\* C7: with several add_transaction requests in flight, the label a request
\* holds and the category of the row it persisted are those of the reply to
\* its own call, and the category list is the one the module started with.
C7_OwnReplyDecides ==
    /\ CATEGORIES = CategoryList
    /\ \A r \in Slots :
          (AddFrame(r) /\ Labelled(r)) =>
            /\ net[r].kind = "response" /\ WellFormed(net[r].body)
            /\ req[r].category = ExpectedLabel(ReplyText(r))
            /\ req[r].pc = "returned"
                  => transactions[req[r].result.id].category = ExpectedLabel(ReplyText(r))

\* Two requests were in flight together with different replies, and each of
\* the two rows has the label of its own request's reply.
C7_Witness ==
    \E r, q \in Slots :
        /\ r # q
        /\ AddFrame(r) /\ req[r].pc = "returned"
        /\ AddFrame(q) /\ req[q].pc = "returned"
        /\ req[r].result.id = 1 /\ req[q].result.id = 2
        /\ ReplyText(r) = <<"M","i","s","c">>
        /\ ReplyText(q) = <<" ">> \o Groceries \o <<" ", "\n">>
        /\ transactions[1].category = Other
        /\ transactions[2].category = Groceries

\* C8: every persisted row has a category of the closed set, and there are as
\* many rows as add_transaction requests that were classified and inserted
\* (those answered, and those about to be).
C8_RowsAreClassifiedRequests ==
    /\ \A i \in DOMAIN transactions : transactions[i].category \in CategorySet \cup {Other}
    /\ Len(transactions) =
          served.created
            + Cardinality({r \in Slots : AddFrame(r) /\ req[r].pc = "returned"})

\* One request failed, one succeeded with a label the list does not hold.
C8_Witness ==
    /\ served.failed = 1
    /\ served.created = 1
    /\ Len(transactions) = 1
    /\ transactions[1].category = Other

\* C10: no two users rows have the same username, and a register request that
\* does not succeed is answered 400 "Username already exists".
C10_UsernamesUnique ==
    /\ \A i, j \in DOMAIN users : users[i].username = users[j].username => i = j
    /\ \A r \in Slots :
          (req[r].handler = "register" /\ req[r].pc = "raised")
              => /\ req[r].status = 400
                 /\ req[r].detail = "Username already exists"

----------------------------------------------------------------------------
(* Properties of the queries, under SpecQuery *)

\* Row i is one of user's rows and passes the filters the request gave.
Wanted(i, user, q) ==
    /\ transactions[i].user_id = user.id
    /\ (Given(q.category) /\ Val(q.category) # <<>>)
          => transactions[i].category = Val(q.category)
    /\ (Given(q.start_date) /\ Val(q.start_date) # <<>>)
          => \E n \in 0..9 : Val(q.start_date) = <<Digits[n + 1]>> /\ transactions[i].date >= n
    /\ (Given(q.end_date) /\ Val(q.end_date) # <<>>)
          => \E n \in 0..9 : Val(q.end_date) = <<Digits[n + 1]>> /\ transactions[i].date <= n

\* C9: an answered get_transactions holds only persisted rows of the caller
\* that pass the filters, at most `limit` of them, and its total is the
\* number of the caller's rows passing the filters among the rows persisted
\* when it was counted, whatever the page and the limit.
C9_OwnRowsWithinLimitAndTotal ==
    \A r \in Slots :
        (req[r].handler = "get_transactions" /\ req[r].pc = "returned") =>
            LET res == req[r].result
            IN  /\ \A k \in DOMAIN res.transactions :
                      \E i \in DOMAIN transactions :
                          /\ res.transactions[k] = transactions[i]
                          /\ Wanted(i, req[r].user, req[r].query)
                /\ Len(res.transactions) <= req[r].query.limit
                /\ res.total =
                      Cardinality({i \in 1..req[r].seen :
                                      Wanted(i, req[r].user, req[r].query)})

\* Alice and bob have a row each; bob asked for the first page of size 1 and
\* got one row, with total 1.
C9_Witness ==
    \E r \in Slots :
        /\ req[r].handler = "get_transactions" /\ req[r].pc = "returned"
        /\ req[r].user = Bob
        /\ req[r].query = Query({}, {}, {}, 1, 1)
        /\ Len(transactions) = 2
        /\ transactions[1].user_id = Alice.id
        /\ req[r].result.total = 1
        /\ Len(req[r].result.transactions) = 1

====
